---- MODULE Spec2Model ----
(***************************************************************************)
(* Model of the B&Q verified-seller scraper: the control loop of main()    *)
(* with its resumable progress ledger, and the bounded-retry fetch client  *)
(* scrapeSeller(), in its two variants (browser-backed src/scrape.mjs and  *)
(* API-based src/unnamed/part_000).  Files on disk (progress.json,         *)
(* sellers.csv) survive the process; everything else is the memory of one  *)
(* process and is lost when it ends.  Every run starts from a fresh        *)
(* results directory or from what earlier runs left in it.                 *)
(***************************************************************************)
EXTENDS Integers, Sequences, FiniteSets, TLC

(* ---------------- bounds of the model ---------------- *)
\* ids 1..MaxId are scraped against an arbitrary upstream
MaxId == 2
\* TO_ID of the long runs against a uniform upstream (more than one flush interval)
LongRange == 12
\* number of processes started one after the other (a run and its resumes)
MaxRuns == 2

(* ---------------- program constants ---------------- *)
MAX_RETRIES == 2
\* the literal of "processedThisRun % 10 === 0"
FlushEvery == 10
\* the literal of "sleep(4000 * attempt)"
BackoffBase == 4000

AllIds == 1..(IF LongRange > MaxId THEN LongRange ELSE MaxId)
SmallIds == 1..MaxId

NoError == ""
NoEntry == [status |-> "none", error |-> NoError]
OkEntry == [status |-> "ok", error |-> NoError]
EmptyEntry == [status |-> "empty", error |-> NoError]
ErrorEntry(msg) == [status |-> "error", error |-> msg]
EmptyLedger == [i \in AllIds |-> NoEntry]
\* a progress.json that JSON.parse rejects (truncated or garbled content)
CorruptLedger == [i \in AllIds |-> [status |-> "corrupt", error |-> NoError]]

\* the four text fields of a result (the columns besides sellerId and sourceUrl)
TextFields == {"businessName", "vatNumber", "registeredAddress", "shippedFrom"}

VARIABLES
  variant,          \* which scraper runs: "browser" or "api"
  upstream,         \* what the remote site does during the run
  FROM_ID, TO_ID,   \* the --from / --to arguments
  progressFile,     \* results/progress.json
  csvFile,          \* results/sellers.csv: the sellerId of each row, in order
  dumps,            \* results/debug/*.html: <<kind, id>> of the dumps written for
                    \* the id being scraped (the program never reads them back)
  run,              \* number of the current process
  pc,               \* position of main()
  progress,         \* main: the in-memory ledger
  id,               \* main: loop variable
  processedThisRun, \* main: counter
  thrown,           \* main: an exception is propagating out of the try block
  attempt,          \* scrapeSeller: loop variable
  resp,             \* scrapeSeller: what the last network operation gave
  result,           \* value returned by scrapeSeller
  sleeps,           \* history: backoff delays of the current scrapeSeller call
  attempts,         \* history: network operations of the current scrapeSeller call
  excs,             \* history: messages of the exceptions its attempts raised
  inflight,         \* history: a network operation was cut off by the process's death
  loaded,           \* history: the ledger as loadProgress returned it
  fetched,          \* history: ids scrapeSeller was invoked for in this run
  csvAtStart,       \* history: number of rows of the sink when the run started
  stages,           \* parseSellerPage: what the extraction stages found in the page
  parsed            \* parseSellerPage: the record returned

vars == <<variant, upstream, FROM_ID, TO_ID, progressFile, csvFile, dumps,
          run, pc, progress, id, processedThisRun, thrown, attempt, resp,
          result, sleeps, attempts, excs, inflight, loaded, fetched, csvAtStart,
          stages, parsed>>

disk == <<progressFile, csvFile>>
config == <<variant, upstream, FROM_ID, TO_ID>>
fetchLocals == <<attempt, resp, result, sleeps, attempts, excs, dumps>>
parser == <<stages, parsed>>

(* ---------------- the upstream site ---------------- *)
\* HTTP statuses a response may carry; 0 stands for "no response object"
\* (page.goto resolved to null), which only the browser variant can see
Statuses == {0, 200, 404, 410, 429, 500, 503}
\* messages of transport-level exceptions (timeout, connection failure)
ExcMessages == {"timeout", "ECONNRESET"}
JsonErrorMessage == "Unexpected token < in JSON"
\* which block signal a rendered page carries
Signals == {"none", "visible", "fullHtml", "captcha", "redirect"}
\* the fields an extraction may find non-empty
FieldSets == {{}} \cup {{f} : f \in TextFields} \cup {TextFields}

\* the wait a Retry-After header suggests, in ms; 0 when there is no header
RetryAfters == {0, 7000}

NoResp == [exc |-> NoError, status |-> 0, marker |-> FALSE, signal |-> "none",
           fields |-> {}, wording |-> FALSE, body |-> "none", retryAfter |-> 0]

\* the rendered documents page.content() may return: seller pages and blank
\* pages (with or without not-found wording), pages carrying the not-found
\* marker, and challenge pages (with or without seller fields behind them)
Htmls ==
  {[marker |-> FALSE, signal |-> "none", fields |-> fs, wording |-> w] :
     fs \in FieldSets, w \in BOOLEAN}
  \cup {[marker |-> TRUE, signal |-> sg, fields |-> {}, wording |-> FALSE] :
     sg \in {"none", "visible"}}
  \cup {[marker |-> FALSE, signal |-> sg, fields |-> fs, wording |-> FALSE] :
     sg \in Signals \ {"none"}, fs \in {{}, TextFields}}
  \cup {[marker |-> FALSE, signal |-> "visible", fields |-> {}, wording |-> TRUE]}

\* the documents a response with another status than 200 is paired with
CoreHtmls ==
  {h \in Htmls : /\ h.fields \in {{}, TextFields}
                 /\ h.signal \in {"none", "visible"}
                 /\ ~h.wording
                 /\ (h.marker => h.signal = "none")
                 /\ (h.signal = "visible" => h.fields = {})}

PageResp(s, h) ==
  [exc |-> NoError, status |-> s, marker |-> h.marker, signal |-> h.signal,
   fields |-> h.fields, wording |-> h.wording, body |-> "html", retryAfter |-> 0]

\* what one pass of the browser variant can meet: page.goto throws, or gives
\* a not-found status (the document is then never read), or another status
\* and then the document; a 429 may come with a Retry-After header
BrowserResponses ==
  {[NoResp EXCEPT !.exc = m] : m \in ExcMessages}
  \cup {[NoResp EXCEPT !.status = s, !.body = "unread"] : s \in {404, 410}}
  \cup {PageResp(200, h) : h \in Htmls}
  \cup {PageResp(s, h) : s \in Statuses \ {200, 404, 410}, h \in CoreHtmls}
  \cup {[PageResp(429, h) EXCEPT !.retryAfter = w] :
         h \in CoreHtmls, w \in RetryAfters}

\* what one pass of the API variant can meet: fetch throws, or gives a status
\* and, when the status is a success (the body is read only then), the body
ApiResponses ==
  {[NoResp EXCEPT !.exc = m] : m \in ExcMessages}
  \cup {[NoResp EXCEPT !.status = s, !.body = "unread"] :
         s \in Statuses \ {0, 200}}
  \cup {[NoResp EXCEPT !.status = 429, !.body = "unread", !.retryAfter = w] :
         w \in RetryAfters}
  \cup {[NoResp EXCEPT !.status = 200, !.body = b] : b \in {"invalid", "noattrs"}}
  \cup {[NoResp EXCEPT !.status = 200, !.body = "attrs", !.fields = fs] :
         fs \in FieldSets}

FoundResp(v) ==
  [NoResp EXCEPT !.status = 200, !.fields = TextFields,
                 !.body = IF v = "api" THEN "attrs" ELSE "html"]
GoneResp(v) == [NoResp EXCEPT !.status = 404, !.body = "unread"]
DownResp == [NoResp EXCEPT !.exc = "timeout"]
\* a success without seller data and without any known wording: a rendered
\* page with nothing recognisable on it, or a JSON body without attributes
BlankResp(v) ==
  [NoResp EXCEPT !.status = 200, !.body = IF v = "api" THEN "noattrs" ELSE "html"]

Upstreams == {"any", "found", "gone", "down", "blank"}

\* the responses an attempt can meet, by variant and by what the site does
Responses(v, u) ==
  CASE u = "found" -> {FoundResp(v)}
    [] u = "gone" -> {GoneResp(v)}
    [] u = "down" -> {DownResp}
    [] u = "blank" -> {BlankResp(v)}
    [] OTHER -> IF v = "api" THEN ApiResponses ELSE BrowserResponses

(* ---------------- scrapeSeller ---------------- *)
emptyResult == [error |-> NoError, fields |-> {}]
ErrorResult(msg) == [error |-> msg, fields |-> {}]
NoResult == [error |-> "unset", fields |-> {}]

StatusText(s) == IF s = 0 THEN "unknown" ELSE ToString(s)
BlockedMessage(s) == "Blocked/challenge page (HTTP " \o StatusText(s) \o ")"
ApiHttpMessage(s) == "API HTTP " \o ToString(s)

\* outcome of one pass through the retry loop's body
Return(res, dump) == [act |-> "return", result |-> res, dump |-> dump]
Retry(dump) == [act |-> "retry", result |-> NoResult, dump |-> dump]

isBlockedHtml(r) == r.status = 503 \/ r.signal # "none"

\* mutant: 410 Gone is not taken for a not-found status
IsNotFoundStatusOnly404(s) == s = 404

IsNotFoundStatus(s) == s \in {404, 410}

\* mutant: off by one, the last attempt's exception is retried as well
CatchClauseRetriesLast(msg, a) ==
  IF a <= MAX_RETRIES THEN Retry("none") ELSE Return(ErrorResult(msg), "none")

\* catch (err) of either variant
CatchClause(msg, a) ==
  IF a < MAX_RETRIES THEN Retry("none") ELSE Return(ErrorResult(msg), "none")

\* mutant: the block detector runs before the look for the not-found marker
BrowserAttemptBlockFirst(r, a) ==
  IF r.exc # NoError THEN CatchClause(r.exc, a)
  ELSE IF IsNotFoundStatus(r.status) THEN Return(emptyResult, "none")
  ELSE IF isBlockedHtml(r) THEN
    IF a < MAX_RETRIES THEN Retry("blocked")
    ELSE Return(ErrorResult(BlockedMessage(r.status)), "blocked")
  ELSE IF r.marker THEN Return(emptyResult, "none")
  ELSE IF r.fields = {} THEN
    IF r.wording THEN Return(emptyResult, "empty")
    ELSE IF a < MAX_RETRIES THEN Retry("empty")
    ELSE Return([error |-> NoError, fields |-> r.fields], "empty")
  ELSE Return([error |-> NoError, fields |-> r.fields], "none")

\* the body of the retry loop of the browser variant, for one response
BrowserAttempt(r, a) ==
  IF r.exc # NoError THEN CatchClause(r.exc, a)
  ELSE IF IsNotFoundStatus(r.status) THEN Return(emptyResult, "none")
  ELSE IF r.marker THEN Return(emptyResult, "none")
  ELSE IF isBlockedHtml(r) THEN
    IF a < MAX_RETRIES THEN Retry("blocked")
    ELSE Return(ErrorResult(BlockedMessage(r.status)), "blocked")
  ELSE IF r.fields = {} THEN
    IF r.wording THEN Return(emptyResult, "empty")
    ELSE IF a < MAX_RETRIES THEN Retry("empty")
    ELSE Return([error |-> NoError, fields |-> r.fields], "empty")
  ELSE Return([error |-> NoError, fields |-> r.fields], "none")

RespOk(s) == s >= 200 /\ s <= 299

parseSellerApiResponse(r) ==
  IF r.body = "noattrs" THEN emptyResult
  ELSE [error |-> NoError, fields |-> r.fields]

ApiAttempt(r, a) ==
  IF r.exc # NoError THEN CatchClause(r.exc, a)
  ELSE IF IsNotFoundStatus(r.status) THEN Return(emptyResult, "none")
  ELSE IF ~RespOk(r.status) THEN
    IF a < MAX_RETRIES THEN Retry("none")
    ELSE Return(ErrorResult(ApiHttpMessage(r.status)), "none")
  ELSE IF r.body = "invalid" THEN CatchClause(JsonErrorMessage, a)
  ELSE Return(parseSellerApiResponse(r), "none")

\* the exception an attempt raised, if any
Raised(v, r) ==
  IF r.exc # NoError THEN <<r.exc>>
  ELSE IF v = "api" /\ ~IsNotFoundStatus(r.status) /\ RespOk(r.status)
          /\ r.body = "invalid" THEN <<JsonErrorMessage>>
  ELSE <<>>

(* ---------------- the ledger and the sink ---------------- *)
\* mutant: an error entry does not count, so a resumed run retries it
HasEntryUnlessError(p, i) == p[i] # NoEntry /\ p[i].status # "error"

\* "if (progress[id]) continue": any entry object is truthy
HasEntry(p, i) == p[i] # NoEntry

\* loadProgress: JSON.parse of the file, {} when there is none; JSON.parse
\* throws on a file it cannot parse
loadProgressThrows(file) == file = CorruptLedger

\* mutant: every run starts from an empty ledger
loadProgressFresh(file) == EmptyLedger

loadProgress(file) == file

\* mutant: only the entries of this run are written, dropping the loaded ones
saveProgressNewOnly(p) ==
  [i \in AllIds |-> IF loaded[i] # NoEntry THEN NoEntry ELSE p[i]]

\* saveProgress: the whole mapping replaces the file's content
saveProgress(p) == p

\* the ledger status main() gives a result
EntryOf(res) ==
  IF res.error # NoError THEN ErrorEntry(res.error)
  ELSE IF    "businessName" \notin res.fields /\ "vatNumber" \notin res.fields
          /\ "registeredAddress" \notin res.fields /\ "shippedFrom" \notin res.fields
       THEN EmptyEntry
  ELSE OkEntry

Rows(csv) == {csv[k] : k \in 1..Len(csv)}
\* ids recorded in memory and not (or not with that entry) in progress.json
Unsaved == {i \in AllIds : HasEntry(progress, i) /\ progressFile[i] # progress[i]}
\* rows appended to the sink since the run started
RowsThisRun == {csvFile[k] : k \in (csvAtStart + 1)..Len(csvFile)}

Running == {"start", "loop", "attempt", "backoff", "record", "append", "flush",
            "pace", "finally"}
Ended == {"done", "failed", "killed", "aborted"}

(* ---------------- main ---------------- *)
\* mutant: a ledger that cannot be parsed is taken for an empty one
LoadIgnoresCorruptLedger ==
  /\ pc = "start"
  /\ \E resources \in BOOLEAN :
       IF ~resources
         THEN /\ pc' = "aborted"
              /\ UNCHANGED <<progress, loaded, csvAtStart, id, processedThisRun>>
         ELSE /\ progress' = IF loadProgressThrows(progressFile) THEN EmptyLedger
                                ELSE loadProgress(progressFile)
              /\ loaded' = progress'
              /\ csvAtStart' = Len(csvFile)
              /\ id' = FROM_ID
              /\ processedThisRun' = 0
              /\ pc' = "loop"
  /\ UNCHANGED <<parser, config, disk, run, thrown, fetchLocals, inflight, fetched>>

\* lines 52-80, all before the try block: the results directory, loadProgress,
\* initCsv, the counters, (browser variant) the launch of the browser.  When
\* the directory or the sink cannot be created, the ledger cannot be parsed or
\* the browser cannot be launched, the exception reaches main().catch: exit 1.
Load ==
  /\ pc = "start"
  /\ \E resources \in BOOLEAN :
       IF ~resources \/ loadProgressThrows(progressFile)
         THEN /\ pc' = "aborted"
              /\ UNCHANGED <<progress, loaded, csvAtStart, id, processedThisRun>>
         ELSE /\ progress' = loadProgress(progressFile)
              /\ loaded' = loadProgress(progressFile)
              /\ csvAtStart' = Len(csvFile)
              /\ id' = FROM_ID
              /\ processedThisRun' = 0
              /\ pc' = "loop"
  /\ UNCHANGED <<parser, config, disk, run, thrown, fetchLocals, inflight, fetched>>

\* the for statement's test, the skip, and the call of scrapeSeller
LoopHead ==
  /\ pc = "loop"
  /\ IF id > TO_ID
       THEN /\ pc' = "finally"
            /\ UNCHANGED <<id, processedThisRun, fetched, fetchLocals>>
       ELSE IF HasEntry(progress, id)
         THEN /\ id' = id + 1
              /\ UNCHANGED <<pc, processedThisRun, fetched, fetchLocals>>
         ELSE /\ processedThisRun' = processedThisRun + 1
              /\ fetched' = fetched \cup {id}
              /\ attempt' = 1
              /\ resp' = NoResp
              /\ result' = NoResult
              /\ sleeps' = <<>>
              /\ attempts' = 0
              /\ excs' = <<>>
              /\ dumps' = {}
              /\ pc' = "attempt"
              /\ UNCHANGED id
  /\ UNCHANGED <<parser, config, disk, run, progress, thrown, inflight, loaded, csvAtStart>>

\* the message of the exception a failing writeFileSync raises
WriteErrorMessage == "ENOSPC: no space left on device, write"

\* mutant: the write is not wrapped in try/catch
saveDebugHtmlUnguarded(store, kind, i, written) ==
  [store |-> IF kind # "none" /\ written THEN store \cup {<<kind, i>>} ELSE store,
   threw |-> kind # "none" /\ ~written]

\* saveDebugHtml: the store after the call, and whether the call threw; the
\* exception of a failing write is caught and dropped inside the function
saveDebugHtml(store, kind, i, written) ==
  [store |-> IF kind # "none" /\ written THEN store \cup {<<kind, i>>} ELSE store,
   threw |-> FALSE]

\* one pass through the body of scrapeSeller's retry loop
Attempt ==
  /\ pc = "attempt"
  /\ \E r \in Responses(variant, upstream), written \in BOOLEAN :
       LET body == IF variant = "api" THEN ApiAttempt(r, attempt)
                   ELSE BrowserAttempt(r, attempt)
           saved == saveDebugHtml(dumps, body.dump, id, written)
           \* an exception raised inside the try block reaches catch (err)
           o == IF saved.threw THEN CatchClause(WriteErrorMessage, attempt)
                ELSE body
       IN /\ (body.dump = "none" => written)
          /\ resp' = r
          /\ attempts' = attempts + 1
          /\ excs' = excs \o Raised(variant, r)
                          \o (IF saved.threw THEN <<WriteErrorMessage>> ELSE <<>>)
          /\ dumps' = saved.store
          /\ IF o.act = "retry"
               THEN pc' = "backoff" /\ UNCHANGED result
               ELSE pc' = "record" /\ result' = o.result
  /\ UNCHANGED <<parser, config, disk, run, progress, id,
                 processedThisRun, thrown, attempt, sleeps, inflight, loaded,
                 fetched, csvAtStart>>

\* mutant: the retry goes out at once, the sleep before it is forgotten
BackoffSkipsSleep ==
  /\ pc = "backoff"
  /\ sleeps' = sleeps
  /\ attempt' = attempt + 1
  /\ IF attempt + 1 <= MAX_RETRIES
       THEN pc' = "attempt" /\ UNCHANGED result
       ELSE pc' = "record" /\ result' = ErrorResult("Unknown scraping failure")
  /\ resp' = NoResp
  /\ UNCHANGED <<parser, config, disk, run, progress, id, processedThisRun, thrown,
                 attempts, excs, dumps, inflight, loaded, fetched, csvAtStart>>

\* mutant: the retry loop never counts its passes
BackoffUncounted ==
  /\ pc = "backoff"
  /\ sleeps' = Append(sleeps, BackoffBase * attempt)
  /\ attempt' = attempt
  /\ pc' = "attempt"
  /\ resp' = NoResp
  /\ UNCHANGED <<parser, config, disk, run, progress, id, processedThisRun, thrown,
                 result, attempts, excs, dumps, inflight, loaded, fetched,
                 csvAtStart>>

\* "await sleep(4000 * attempt); continue" and the for statement's step
Backoff ==
  /\ pc = "backoff"
  /\ sleeps' = Append(sleeps, BackoffBase * attempt)
  /\ attempt' = attempt + 1
  /\ IF attempt + 1 <= MAX_RETRIES
       THEN pc' = "attempt" /\ UNCHANGED result
       ELSE pc' = "record" /\ result' = ErrorResult("Unknown scraping failure")
  /\ resp' = NoResp
  /\ UNCHANGED <<parser, config, disk, run, progress, id, processedThisRun, thrown,
                 attempts, excs, dumps, inflight, loaded, fetched, csvAtStart>>

\* scrapeSeller's frame is gone once main() holds its result
ClearFetch ==
  /\ attempt' = 0
  /\ resp' = NoResp
  /\ sleeps' = <<>>
  /\ attempts' = 0
  /\ excs' = <<>>
  /\ dumps' = {}

\* mutant: an id without seller is left without an entry
RecordFoundOrError ==
  /\ pc = "record"
  /\ progress' = IF EntryOf(result) = EmptyEntry THEN progress
                  ELSE [progress EXCEPT ![id] = EntryOf(result)]
  /\ pc' = IF EntryOf(result) = OkEntry THEN "append" ELSE "flush"
  /\ ClearFetch
  /\ UNCHANGED <<parser, config, disk, run, id, processedThisRun, thrown, result,
                 inflight, loaded, fetched, csvAtStart>>

\* the three branches on the result: the ledger entry is set in memory
\* (the row of a found seller is appended next, by appendCsvRow)
Record ==
  /\ pc = "record"
  /\ progress' = [progress EXCEPT ![id] = EntryOf(result)]
  /\ pc' = IF EntryOf(result) = OkEntry THEN "append" ELSE "flush"
  /\ ClearFetch
  /\ UNCHANGED <<parser, config, disk, run, id, processedThisRun, thrown, result,
                 inflight, loaded, fetched, csvAtStart>>

\* mutant: the row of an id the sink already holds is not appended again
appendCsvRowOnce ==
  /\ pc = "append"
  /\ \E appended \in BOOLEAN :
       IF appended
         THEN /\ csvFile' = IF id \in Rows(csvFile) THEN csvFile
                                ELSE Append(csvFile, id)
              /\ pc' = "flush"
              /\ UNCHANGED thrown
         ELSE thrown' = TRUE /\ pc' = "finally" /\ UNCHANGED csvFile
  /\ UNCHANGED <<parser, config, progressFile, run, progress, id,
                 processedThisRun, fetchLocals, inflight, loaded, fetched,
                 csvAtStart>>

\* appendCsvRow: appendFileSync adds the row, or throws
appendCsvRow ==
  /\ pc = "append"
  /\ \E appended \in BOOLEAN :
       IF appended
         THEN csvFile' = Append(csvFile, id) /\ pc' = "flush" /\ UNCHANGED thrown
         ELSE thrown' = TRUE /\ pc' = "finally" /\ UNCHANGED csvFile
  /\ UNCHANGED <<parser, config, progressFile, run, progress, id,
                 processedThisRun, fetchLocals, inflight, loaded, fetched,
                 csvAtStart>>

\* mutant: the periodic flush comes one id late
PeriodicSaveLate ==
  /\ pc = "flush"
  /\ progressFile' = IF processedThisRun % (FlushEvery + 1) = 0
                       THEN saveProgress(progress) ELSE progressFile
  /\ pc' = "pace"
  /\ UNCHANGED <<parser, config, csvFile, run, progress, id,
                 processedThisRun, thrown, fetchLocals, inflight, loaded,
                 fetched, csvAtStart>>

\* "if (processedThisRun % 10 === 0) saveProgress(progress)"
PeriodicSave ==
  /\ pc = "flush"
  /\ progressFile' = IF processedThisRun % FlushEvery = 0
                       THEN saveProgress(progress) ELSE progressFile
  /\ pc' = "pace"
  /\ UNCHANGED <<parser, config, csvFile, run, progress, id,
                 processedThisRun, thrown, fetchLocals, inflight, loaded,
                 fetched, csvAtStart>>

\* "if (id < TO_ID) await sleep(DELAY_MS)" and the for statement's step
Pace ==
  /\ pc = "pace"
  /\ id' = id + 1
  /\ result' = NoResult
  /\ pc' = "loop"
  /\ UNCHANGED <<parser, config, disk, run, progress, processedThisRun, thrown,
                 attempt, resp, sleeps, attempts, excs, dumps, inflight,
                 loaded, fetched, csvAtStart>>

\* mutant: the flush sits after the loop instead of in a finally block
FlushOnlyOnCompletion ==
  /\ pc = "finally"
  /\ progressFile' = IF thrown THEN progressFile ELSE saveProgress(progress)
  /\ pc' = IF thrown THEN "failed" ELSE "done"
  /\ UNCHANGED <<parser, config, csvFile, run, progress, id,
                 processedThisRun, thrown, fetchLocals, inflight, loaded,
                 fetched, csvAtStart>>

\* the finally block, then the summary (exit 0) or main().catch (exit 1)
Finally ==
  /\ pc = "finally"
  /\ progressFile' = saveProgress(progress)
  /\ pc' = IF thrown THEN "failed" ELSE "done"
  /\ UNCHANGED <<parser, config, csvFile, run, progress, id,
                 processedThisRun, thrown, fetchLocals, inflight, loaded,
                 fetched, csvAtStart>>

\* SIGINT (or any kill): neither script installs a handler, so the process
\* ends where it is; the ledger in memory at that moment is kept as history
Interrupt ==
  /\ pc \in Running
  /\ pc' = "killed"
  /\ inflight' = (pc = "attempt")
  /\ ClearFetch
  /\ result' = NoResult
  /\ id' = 0
  /\ processedThisRun' = 0
  /\ thrown' = FALSE
  /\ UNCHANGED <<parser, config, disk, run, progress, loaded, fetched, csvAtStart>>

\* the same command is started again
Restart ==
  /\ pc \in Ended
  /\ run < MaxRuns
  /\ run' = run + 1
  /\ pc' = "start"
  /\ progress' = EmptyLedger
  /\ loaded' = EmptyLedger
  /\ fetched' = {}
  /\ csvAtStart' = Len(csvFile)
  /\ id' = 0
  /\ processedThisRun' = 0
  /\ thrown' = FALSE
  /\ inflight' = FALSE
  /\ attempt' = 0
  /\ resp' = NoResp
  /\ result' = NoResult
  /\ sleeps' = <<>>
  /\ attempts' = 0
  /\ excs' = <<>>
  /\ dumps' = {}
  /\ UNCHANGED <<parser, config, disk>>

(* ---------------- src/lib/parse.js ---------------- *)
\* A JS string is modelled as the sequence of its characters (UTF-16 code
\* units), each written as a one-character string; the characters outside
\* ASCII are named: "NBSP" (U+00A0), "EN-DASH" (U+2013), "I-dot" (U+0130,
\* capital I with dot above) and "dot-above" (U+0307, combining dot above).
UpperCase ==
  <<"A", "B", "C", "D", "E", "F", "G", "H", "I", "J", "K", "L", "M",
    "N", "O", "P", "Q", "R", "S", "T", "U", "V", "W", "X", "Y", "Z">>
LowerCase ==
  <<"a", "b", "c", "d", "e", "f", "g", "h", "i", "j", "k", "l", "m",
    "n", "o", "p", "q", "r", "s", "t", "u", "v", "w", "x", "y", "z">>
IsUpper(c) == \E k \in 1..Len(UpperCase) : c = UpperCase[k]
IsLetter(c) == \E k \in 1..Len(UpperCase) : c = UpperCase[k] \/ c = LowerCase[k]
IsDigit(c) == c \in {"0", "1", "2", "3", "4", "5", "6", "7", "8", "9"}
\* \s of a regular expression, and what String.prototype.trim strips
IsWhitespace(c) == c \in {" ", "\t", "\n", "\r", "\f", "NBSP"}

\* String.prototype.toLowerCase, character by character: U+0130 lowercases
\* to the two code units "i" U+0307, every other character to one
LowerOfChar(c) ==
  IF IsUpper(c) THEN <<LowerCase[CHOOSE k \in 1..Len(UpperCase) : c = UpperCase[k]]>>
  ELSE IF c = "I-dot" THEN <<"i", "dot-above">>
  ELSE <<c>>

\* the concatenation of a sequence of strings: what a replace or a case
\* mapping that works character by character returns
RECURSIVE Flatten(_)
Flatten(ss) ==
  IF Len(ss) = 0 THEN <<>>
  ELSE IF Len(ss) = 1 THEN ss[1]
  ELSE LET m == Len(ss) \div 2
       IN Flatten(SubSeq(ss, 1, m)) \o Flatten(SubSeq(ss, m + 1, Len(ss)))

toLowerCase(s) == Flatten([k \in 1..Len(s) |-> LowerOfChar(s[k])])

StartsWith(s, p) == Len(p) <= Len(s) /\ SubSeq(s, 1, Len(p)) = p

\* String.prototype.indexOf: the first position (from 0) of p in s, or -1
indexOf(s, p) ==
  LET At(i) == SubSeq(s, i + 1, i + Len(p)) = p
      Hits == {i \in 0..(Len(s) - Len(p)) : At(i)}
  IN IF Hits = {} THEN -1 ELSE CHOOSE i \in Hits : \A j \in Hits : i <= j

\* s.slice(0, n)
slice(s, n) == SubSeq(s, 1, IF n < Len(s) THEN n ELSE Len(s))

\* s.replace(/pat/g, rep) for a literal pattern no two occurrences of which
\* overlap (an entity, a single character): every occurrence is replaced
ReplaceAll(s, pat, rep) ==
  LET Occurs(i) == StartsWith(SubSeq(s, i, Len(s)), pat)
      Inside(i) == \E j \in 1..(i - 1) : j + Len(pat) > i /\ Occurs(j)
  IN Flatten([i \in 1..Len(s) |->
                IF Occurs(i) THEN rep
                ELSE IF Inside(i) THEN <<>>
                ELSE <<s[i]>>])

\* the white space at the start removed
StripLeft(s) ==
  LET Kept == {k \in 1..Len(s) : ~IsWhitespace(s[k])}
  IN IF Kept = {} THEN <<>>
     ELSE SubSeq(s, CHOOSE k \in Kept : \A j \in Kept : k <= j, Len(s))

\* the white space at the end removed
StripRight(s) ==
  LET Kept == {k \in 1..Len(s) : ~IsWhitespace(s[k])}
  IN IF Kept = {} THEN <<>>
     ELSE SubSeq(s, 1, CHOOSE k \in Kept : \A j \in Kept : k >= j)

\* String.prototype.trim
trim(s) == StripRight(StripLeft(s))

decodeEntities(str) ==
  LET s1 == ReplaceAll(str, <<"&", "n", "b", "s", "p", ";">>, <<" ">>)
      s2 == ReplaceAll(s1, <<"&", "a", "m", "p", ";">>, <<"&">>)
      s3 == ReplaceAll(s2, <<"&", "q", "u", "o", "t", ";">>, <<"\"">>)
      s4 == ReplaceAll(s3, <<"&", "#", "3", "9", ";">>, <<"'">>)
      s5 == ReplaceAll(s4, <<"&", "l", "t", ";">>, <<"<">>)
      s6 == ReplaceAll(s5, <<"&", "g", "t", ";">>, <<">">>)
  IN ReplaceAll(s6, <<"NBSP">>, <<" ">>)

\* .replace(/[ \t]+/g, ' ')
CollapseBlanks(s) ==
  LET Blank(k) == s[k] \in {" ", "\t"}
  IN Flatten([k \in 1..Len(s) |->
                IF ~Blank(k) THEN <<s[k]>>
                ELSE IF k < Len(s) /\ Blank(k + 1) THEN <<>>
                ELSE <<" ">>])

\* .replace(/\n{3,}/g, '\n\n')
CollapseNewlines(s) ==
  Flatten([k \in 1..Len(s) |->
             IF k + 2 <= Len(s) /\ s[k] = "\n" /\ s[k + 1] = "\n" /\ s[k + 2] = "\n"
               THEN <<>>
               ELSE <<s[k]>>])

cleanText(str) ==
  trim(CollapseNewlines(CollapseBlanks(
         ReplaceAll(decodeEntities(str), <<"\r">>, <<"\n">>))))

\* .replace(/\s+/g, ' ')
CollapseWhitespace(s) ==
  Flatten([k \in 1..Len(s) |->
             IF ~IsWhitespace(s[k]) THEN <<s[k]>>
             ELSE IF k < Len(s) /\ IsWhitespace(s[k + 1]) THEN <<>>
             ELSE <<" ">>])

\* .replace(/[:\-EN-DASH]+$/g, '')
StripTrailingPunctuation(s) ==
  LET Kept == {k \in 1..Len(s) : s[k] \notin {":", "-", "EN-DASH"}}
  IN IF Kept = {} THEN <<>>
     ELSE SubSeq(s, 1, CHOOSE k \in Kept : \A j \in Kept : k >= j)

normalizeLabel(s) ==
  trim(StripTrailingPunctuation(CollapseWhitespace(toLowerCase(cleanText(s)))))

\* [A-Z0-9 -]{8,20} under the i flag
VatBody(b) ==
  /\ Len(b) >= 8
  /\ Len(b) <= 20
  /\ \A k \in 1..Len(b) : IsLetter(b[k]) \/ IsDigit(b[k]) \/ b[k] \in {" ", "-"}

\* /^(?:[A-Z]{2}\s*)?[A-Z0-9 -]{8,20}$/i
MatchesVatShape(v) ==
  \/ VatBody(v)
  \/ /\ Len(v) >= 2
     /\ IsLetter(v[1])
     /\ IsLetter(v[2])
     /\ \E k \in 2..Len(v) :
          /\ \A j \in 3..k : IsWhitespace(v[j])
          /\ VatBody(SubSeq(v, k + 1, Len(v)))

\* /\d{8,}/
HasDigitRun(v) ==
  \E i \in 1..(Len(v) - 7) : \A j \in i..(i + 7) : IsDigit(v[j])

looksLikeVat(value) ==
  LET v == cleanText(value) IN MatchesVatShape(v) /\ HasDigitRun(v)

BadBusinessNames ==
  {
    <<>>,
    <<"e", "m", "a", "i", "l">>,
    <<"e", "-", "m", "a", "i", "l">>,
    <<"p", "h", "o", "n", "e">>,
    <<"t", "e", "l", "e", "p", "h", "o", "n", "e">>,
    <<"m", "e", "s", "s", "a", "g", "e">>,
    <<"s", "u", "b", "j", "e", "c", "t">>,
    <<"n", "a", "m", "e">>,
    <<"b", "u", "s", "i", "n", "e", "s", "s", " ", "n", "a", "m", "e">>,
    <<"v", "a", "t", " ", "n", "u", "m", "b", "e", "r">>,
    <<"r", "e", "g", "i", "s", "t", "e", "r", "e", "d", " ", "a", "d", "d",
      "r", "e", "s", "s">>,
    <<"s", "h", "i", "p", "p", "e", "d", " ", "f", "r", "o", "m">>,
    <<"s", "u", "b", "m", "i", "t">>,
    <<"c", "o", "n", "t", "i", "n", "u", "e">>
  }

isBadBusinessName(value) == normalizeLabel(value) \in BadBusinessNames

\* mutant: the structural pairs are consulted before the label blocks
CascadeStructuralFirst(blockVal, labelVal, rxVal) ==
  IF labelVal # <<>> THEN labelVal
  ELSE IF blockVal # <<>> THEN blockVal
  ELSE rxVal

\* "blockVals.x || labelVals.x || rxVals.x": the empty string is falsy
Cascade(blockVal, labelVal, rxVal) ==
  IF blockVal # <<>> THEN blockVal
  ELSE IF labelVal # <<>> THEN labelVal
  ELSE rxVal

\* .replace(/\n+/g, ', ')
JoinLines(s) ==
  Flatten([k \in 1..Len(s) |->
             IF s[k] # "\n" THEN <<s[k]>>
             ELSE IF k < Len(s) /\ s[k + 1] = "\n" THEN <<>>
             ELSE <<",", " ">>])

\* .replace(/[,\s]+$/g, '')
StripTrailingSeparators(s) ==
  LET Kept == {k \in 1..Len(s) : s[k] # "," /\ ~IsWhitespace(s[k])}
  IN IF Kept = {} THEN <<>>
     ELSE SubSeq(s, 1, CHOOSE k \in Kept : \A j \in Kept : k >= j)

ShipsFromPhrase ==
  <<"t", "h", "i", "s", " ", "s", "e", "l", "l", "e", "r", " ", "s", "h",
    "i", "p", "s", " ", "f", "r", "o", "m">>
HowToContactPhrase ==
  <<"h", "o", "w", " ", "t", "o", " ", "c", "o", "n", "t", "a", "c", "t",
    " ", "a", " ", "b", "&", "q", " ", "v", "e", "r", "i", "f", "i", "e",
    "d", " ", "s", "e", "l", "l", "e", "r">>
GotAQuestionPhrase ==
  <<"g", "o", "t", " ", "a", " ", "q", "u", "e", "s", "t", "i", "o", "n",
    " ", "a", "b", "o", "u", "t", " ", "y", "o", "u", "r", " ", "o", "r",
    "d", "e", "r">>
ReturnsPolicyPhrase ==
  <<"r", "e", "t", "u", "r", "n", "s", " ", "p", "o", "l", "i", "c", "y">>

cutPhrases ==
  <<ShipsFromPhrase, HowToContactPhrase, GotAQuestionPhrase, ReturnsPolicyPhrase>>

\* one pass of the loop over cutPhrases: the index is found in the
\* lowercased copy and applied to the address itself
CutAt(address, p) ==
  LET idx == indexOf(toLowerCase(address), p)
  IN IF idx >= 0
       THEN StripTrailingSeparators(trim(slice(address, idx)))
       ELSE address

RECURSIVE CutFrom(_, _)
CutFrom(address, k) ==
  IF k > Len(cutPhrases) THEN address
  ELSE CutFrom(CutAt(address, cutPhrases[k]), k + 1)

\* "if (isBadBusinessName(businessName)) businessName = ''", then cleanText
FinishBusinessName(v) ==
  cleanText(IF isBadBusinessName(v) THEN <<>> ELSE v)

\* mutant: the final guard on the VAT number is missing
FinishVatNumberUnchecked(v) == cleanText(v)

\* "if (vatNumber && !looksLikeVat(vatNumber)) vatNumber = ''", then cleanText
FinishVatNumber(v) ==
  cleanText(IF v # <<>> /\ ~looksLikeVat(v) THEN <<>> ELSE v)

\* cleanText, the line breaks joined, then the safety trim
FinishRegisteredAddress(v) == CutFrom(JoinLines(cleanText(v)), 1)

\* cleanText, the line breaks joined, then the phrase of the visible text
\* when the field is still empty
FinishShippedFrom(v, phraseMatch) ==
  LET shippedFrom == JoinLines(cleanText(v))
  IN IF shippedFrom = <<>> /\ phraseMatch # <<>>
       THEN cleanText(phraseMatch) ELSE shippedFrom

\* parseSellerPage from the results of its three extraction stages
\* (extractLabelValueBlocks; findValueByLabels over the merged pairs;
\* extractRegexFallback) and the match of "This seller ships from ..."
parseSellerPage(st) ==
  [businessName |->
     FinishBusinessName(Cascade(st.blockVals.businessName,
                                st.labelVals.businessName, st.rxVals.businessName)),
   vatNumber |->
     FinishVatNumber(Cascade(st.blockVals.vatNumber,
                             st.labelVals.vatNumber, st.rxVals.vatNumber)),
   registeredAddress |->
     FinishRegisteredAddress(Cascade(st.blockVals.registeredAddress,
                                     st.labelVals.registeredAddress,
                                     st.rxVals.registeredAddress)),
   shippedFrom |->
     FinishShippedFrom(Cascade(st.blockVals.shippedFrom,
                               st.labelVals.shippedFrom, st.rxVals.shippedFrom),
                       st.shipsFromMatch)]

\* ---- the pages the parser is run on, by what the stages find in them ----
NoFields ==
  [businessName |-> <<>>, vatNumber |-> <<>>, registeredAddress |-> <<>>,
   shippedFrom |-> <<>>]
NoStages ==
  [blockVals |-> NoFields, labelVals |-> NoFields, rxVals |-> NoFields,
   shipsFromMatch |-> <<>>]

\* texts found next to a VAT label
VatGB == <<"G", "B", "1", "2", "3", "4", "5", "6", "7", "8", "9">>
VatNA == <<"N", "/", "A">>
VatShort == <<"1", "2", "3", "4", "5">>
VatSevenDigits == <<"1", "2", "3", "4", "5", "6", "7">>
VatEightDigits == <<"1", "2", "3", "4", "5", "6", "7", "8">>
VatGrouped ==
  <<"G", "B", " ", "1", "2", "3", " ", "4", "5", "6", " ", "7", "8", "9">>
VatEntity ==
  <<"G", "B", "&", "n", "b", "s", "p", ";", "1", "2", "3", "4", "5", "6",
    "7", "8", "9">>
VatTab ==
  <<"D", "E", "\t", "\t", "1", "2", "3", "4", "5", "6", "7", "8", "9">>
VatHyphen == <<"D", "E", "-", "1", "2", "3", "4", "5", "6", "7", "8">>
VatLongest ==
  <<"G", "B", "1", "2", "3", "4", "5", "6", "7", "8", "9", "0", "1", "2",
    "3", "4", "5", "6", "7", "8", "9", "0">>
VatTooLong ==
  <<"G", "B", "1", "2", "3", "4", "5", "6", "7", "8", "9", "0", "1", "2",
    "3", "4", "5", "6", "7", "8", "9", "0", "1">>
VatFormFeed == <<"G", "B", "\f", "1", "2", "3", "4", "5", "6", "7", "8">>
VatTexts ==
  {VatGB, VatNA, VatShort, VatSevenDigits, VatEightDigits, VatGrouped,
   VatEntity, VatTab, VatHyphen, VatLongest, VatTooLong, VatFormFeed}
RegexVatTexts ==
  {VatGB, VatEightDigits, VatSevenDigits}

\* texts found next to a business-name label
NameAcme == <<"A", "C", "M", "E", " ", "L", "T", "D">>
NameOther ==
  <<"T", "o", "o", "l", "s", " ", "&", "a", "m", "p", ";", " ", "C", "o">>
NameEmail == <<"E", "m", "a", "i", "l">>
NameLabel ==
  <<"B", "u", "s", "i", "n", "e", "s", "s", " ", "n", "a", "m", "e", ":">>
NameTexts ==
  {NameAcme, NameOther, NameEmail, NameLabel}
RegexNameTexts ==
  {NameAcme, NameEmail}

\* texts found next to an address label
AddrPlain ==
  <<"1", " ", "H", "i", "g", "h", " ", "S", "t", ",", " ", "L", "e", "e",
    "d", "s">>
AddrOther == <<"2", " ", "L", "o", "w", " ", "R", "d">>
AddrLines ==
  <<"2", " ", "L", "o", "w", " ", "R", "d", ",", "\n", "H", "u", "l", "l">>
AddrShips ==
  <<"1", " ", "H", "i", "g", "h", " ", "S", "t", ",", " ", "T", "h", "i",
    "s", " ", "s", "e", "l", "l", "e", "r", " ", "s", "h", "i", "p", "s",
    " ", "f", "r", "o", "m", " ", "G", "e", "r", "m", "a", "n", "y">>
AddrReturns ==
  <<"2", " ", "L", "o", "w", " ", "R", "d", " ", "R", "E", "T", "U", "R",
    "N", "S", " ", "P", "O", "L", "I", "C", "Y">>
AddrTwoPhrases ==
  <<"H", "u", "l", "l", " ", "R", "e", "t", "u", "r", "n", "s", " ", "p",
    "o", "l", "i", "c", "y", ",", " ", "t", "h", "i", "s", " ", "s", "e",
    "l", "l", "e", "r", " ", "s", "h", "i", "p", "s", " ", "f", "r", "o",
    "m", " ", "U", "K">>
AddrContact ==
  <<"H", "u", "l", "l", " ", ",", " ", ",", " ", "H", "o", "w", " ", "t",
    "o", " ", "c", "o", "n", "t", "a", "c", "t", " ", "a", " ", "B", "&",
    "a", "m", "p", ";", "Q", " ", "V", "e", "r", "i", "f", "i", "e", "d",
    " ", "S", "e", "l", "l", "e", "r">>
AddrQuestion ==
  <<"G", "o", "t", " ", "a", " ", "q", "u", "e", "s", "t", "i", "o", "n",
    " ", "a", "b", "o", "u", "t", " ", "y", "o", "u", "r", " ", "o", "r",
    "d", "e", "r">>
AddrIstanbul ==
  <<"I-dot", "s", "t", "a", "n", "b", "u", "l", ",", " ", "T", "h", "i", "s",
    " ", "s", "e", "l", "l", "e", "r", " ", "s", "h", "i", "p", "s", " ",
    "f", "r", "o", "m", " ", "T", "u", "r", "k", "e", "y">>
AddressTexts ==
  {AddrPlain, AddrOther, AddrLines, AddrShips, AddrReturns, AddrTwoPhrases,
   AddrContact, AddrQuestion, AddrIstanbul}
RegexAddressTexts ==
  {AddrPlain, AddrLines}

\* texts found next to a shipped-from label
GermanyText == <<"G", "e", "r", "m", "a", "n", "y">>
UnitedKingdomText ==
  <<"U", "n", "i", "t", "e", "d", " ", " ", "K", "i", "n", "g", "d", "o",
    "m">>
TurkeyText == <<"T", "u", "r", "k", "e", "y">>
ShipTexts ==
  {GermanyText, UnitedKingdomText, TurkeyText}
RegexShipTexts ==
  {GermanyText, TurkeyText}

\* what each stage can return for a field: extractLabelValueBlocks keeps
\* only names that are not bad and VAT numbers that look like one, and
\* extractRegexFallback empties a bad name and a VAT number that does not
\* look like one; findValueByLabels returns the paired text as it is
BlockValues(f) ==
  {<<>>} \cup
  CASE f = "businessName" -> {v \in NameTexts : ~isBadBusinessName(v)}
    [] f = "vatNumber" -> {v \in VatTexts : looksLikeVat(v)}
    [] f = "registeredAddress" -> AddressTexts
    [] OTHER -> ShipTexts

LabelValues(f) ==
  {<<>>} \cup
  CASE f = "businessName" -> NameTexts
    [] f = "vatNumber" -> VatTexts
    [] f = "registeredAddress" -> AddressTexts
    [] OTHER -> ShipTexts

RegexValues(f) ==
  {<<>>} \cup
  CASE f = "businessName" -> {v \in RegexNameTexts : ~isBadBusinessName(v)}
    [] f = "vatNumber" -> {v \in RegexVatTexts : looksLikeVat(v)}
    [] f = "registeredAddress" -> RegexAddressTexts
    [] OTHER -> RegexShipTexts

\* pages on which the stages find something for one field
PagesFor(f) ==
  {[blockVals |-> [NoFields EXCEPT ![f] = b],
    labelVals |-> [NoFields EXCEPT ![f] = l],
    rxVals |-> [NoFields EXCEPT ![f] = r],
    shipsFromMatch |-> m] :
     b \in BlockValues(f), l \in LabelValues(f), r \in RegexValues(f),
     m \in IF f = "shippedFrom" THEN {<<>>, GermanyText} ELSE {<<>>}}

Pages == UNION {PagesFor(f) : f \in TextFields}

\* one call of parseSellerPage
Parse ==
  /\ pc = "parse"
  /\ parsed' = parseSellerPage(stages)
  /\ pc' = "parsed"
  /\ UNCHANGED <<stages, config, disk, run, progress, id, processedThisRun,
                 thrown, fetchLocals, inflight, loaded, fetched, csvAtStart>>

(* ---------------- initial states ---------------- *)
InitProcess ==
  /\ dumps = {}
  /\ run = 1
  /\ pc = "start"
  /\ progress = EmptyLedger
  /\ loaded = EmptyLedger
  /\ fetched = {}
  /\ csvAtStart = Len(csvFile)
  /\ id = 0
  /\ processedThisRun = 0
  /\ thrown = FALSE
  /\ inflight = FALSE
  /\ attempt = 0
  /\ resp = NoResp
  /\ result = NoResult
  /\ sleeps = <<>>
  /\ attempts = 0
  /\ excs = <<>>
  /\ stages = NoStages
  /\ parsed = NoFields

\* a short range, ending at MaxId, against an arbitrary site
InitShort ==
  /\ upstream = "any"
  /\ FROM_ID \in SmallIds
  /\ TO_ID = MaxId

\* a range longer than the flush interval against a uniform site
InitLong ==
  /\ upstream \in Upstreams \ {"any"}
  /\ FROM_ID = 1
  /\ TO_ID = LongRange

\* the results directory is fresh, or holds a progress.json that is not JSON
Init ==
  /\ variant \in {"browser", "api"}
  /\ (InitShort \/ InitLong)
  /\ progressFile \in {EmptyLedger, CorruptLedger}
  /\ csvFile = <<>>
  /\ InitProcess

Next ==
  \/ Load
  \/ LoopHead
  \/ Attempt
  \/ Backoff
  \/ Record
  \/ appendCsvRow
  \/ PeriodicSave
  \/ Pace
  \/ Finally
  \/ Interrupt
  \/ Restart

Spec == Init /\ [][Next]_vars

\* the steps of a live process: the event loop runs every continuation, and
\* every network operation settles (by a response, an error or a timeout)
Step ==
  \/ Load
  \/ LoopHead
  \/ Attempt
  \/ Backoff
  \/ Record
  \/ appendCsvRow
  \/ PeriodicSave
  \/ Pace
  \/ Finally

FairSpec == Init /\ [][Next]_vars /\ WF_vars(Step)

\* the steps the code itself brings about: the continuations of main() and
\* scrapeSeller, and a network operation that carries a timeout (page.goto:
\* 45000 ms, page.waitForFunction: 8000 ms).  The fetch of the API variant is
\* given no timeout and no abort signal: it settles when the site answers or
\* the transport fails, and nothing in the script makes it settle otherwise.
TimedStep ==
  \/ Load
  \/ LoopHead
  \/ (variant = "browser" /\ Attempt)
  \/ Backoff
  \/ Record
  \/ appendCsvRow
  \/ PeriodicSave
  \/ Pace
  \/ Finally

TimeoutSpec == Init /\ [][Next]_vars /\ WF_vars(TimedStep)

\* the parser on its own: parseSellerPage applied once to each of the pages
ParseInit ==
  /\ variant = "browser"
  /\ upstream = "found"
  /\ FROM_ID = 1
  /\ TO_ID = 1
  /\ progressFile = EmptyLedger
  /\ csvFile = <<>>
  /\ dumps = {}
  /\ run = 1
  /\ pc = "parse"
  /\ progress = EmptyLedger
  /\ loaded = EmptyLedger
  /\ fetched = {}
  /\ csvAtStart = 0
  /\ id = 0
  /\ processedThisRun = 0
  /\ thrown = FALSE
  /\ inflight = FALSE
  /\ attempt = 0
  /\ resp = NoResp
  /\ result = NoResult
  /\ sleeps = <<>>
  /\ attempts = 0
  /\ excs = <<>>
  /\ stages \in Pages
  /\ parsed = NoFields

ParseNext == Parse

ParseSpec == ParseInit /\ [][ParseNext]_vars

(* ---------------- properties ---------------- *)
InRange(i) == FROM_ID <= i /\ i <= TO_ID

\* C1: idempotent skip. In a run, scrapeSeller is never invoked for an id that
\* has an entry in the ledger loaded at start, whatever the entry's status;
\* an error entry is terminal too.
C1_IdempotentSkip ==
  \A i \in AllIds : loaded[i] # NoEntry => i \notin fetched

\* a resumed run that completed, having skipped a loaded error entry of its
\* range and fetched another id
C1_Witness ==
  /\ pc = "done"
  /\ \E i \in AllIds : InRange(i) /\ loaded[i].status = "error"
  /\ fetched # {}

\* C2: idempotent resume (frame). The ids of the loaded ledger keep their
\* entry in memory and in progress.json, get no row in the sink in this run,
\* and a completed run has fetched exactly the ids of the range outside it.
C2_ResumeFrame ==
  /\ \A i \in AllIds : loaded[i] # NoEntry =>
       /\ progress[i] = loaded[i]
       /\ progressFile[i] = loaded[i]
       /\ i \notin RowsThisRun
  /\ fetched \subseteq {i \in AllIds : InRange(i) /\ loaded[i] = NoEntry}
  /\ (pc = "done" => fetched = {i \in AllIds : InRange(i) /\ loaded[i] = NoEntry})

\* a completed resumed run over a range holding both loaded and pending ids
C2_Witness ==
  /\ pc = "done"
  /\ \E i, j \in AllIds : InRange(i) /\ loaded[i] # NoEntry /\ j \in fetched

\* C3: at-least-once durability. In every reachable state, every id whose
\* entry in progress.json has status ok has at least one row in sellers.csv.
C3_OkEntryHasRow ==
  \A i \in AllIds : progressFile[i].status = "ok" => i \in Rows(csvFile)

C5_BoundedLoss ==
  /\ Cardinality(Unsaved) <= FlushEvery
  /\ (pc = "pace" /\ processedThisRun % FlushEvery = 0 => Unsaved = {})

\* a full flush interval is recorded and not yet flushed
C5_Witness ==
  /\ pc = "flush"
  /\ Cardinality(Unsaved) = FlushEvery

\* C6: graceful interrupt. When the process has ended after an interrupt
\* signal, no fetch was cut off in flight and the ledger has been flushed:
\* progress.json equals the in-memory ledger.
C6_GracefulInterrupt ==
  pc = "killed" => (~inflight /\ progressFile = progress)

\* C7: outcome classification. Once main() has handled the result of an id
\* (also when handling it threw), the id's entry is error with the result's
\* reason iff the result carries an error, empty iff it carries none and all
\* four fields are empty, ok otherwise; and the id has a row appended in this
\* run iff its entry is ok.
C7_Classification ==
  (pc \in {"flush", "pace"} \/ (pc = "finally" /\ thrown)) =>
    /\ (progress[id].status = "error" <=> result.error # NoError)
    /\ (progress[id].status = "error" => progress[id].error = result.error)
    /\ (progress[id].status = "empty" <=>
          (result.error = NoError /\ result.fields \cap TextFields = {}))
    /\ (progress[id].status = "ok" <=>
          (result.error = NoError /\ result.fields \cap TextFields # {}))
    /\ (id \in RowsThisRun <=> progress[id].status = "ok")

AllRecorded == \A i \in AllIds : InRange(i) => progress[i] # NoEntry

\* an attempt that failed: one the retry loop repeats while budget remains
FailedAttempt(v, r) ==
  \/ r.exc # NoError
  \/ /\ v = "api"
     /\ r.status \notin {404, 410}
     /\ (r.status \notin 200..299 \/ r.body = "invalid")
  \/ /\ v = "browser"
     /\ r.status \notin {404, 410}
     /\ ~r.marker
     /\ (r.status = 503 \/ r.signal # "none" \/ (r.fields = {} /\ ~r.wording))

\* scrapeSeller is about to return with its retries used up on failures
Exhausted == pc = "record" /\ attempts = MAX_RETRIES /\ FailedAttempt(variant, resp)

\* C8: a failing identifier never aborts the run. When scrapeSeller has used
\* up its retries for an id, the id is recorded as an error entry and the
\* loop goes on (to the periodic flush and the next id); a run that completes
\* has an entry for every id of the range; and every started run ends:
\* completed, unless the sink failed or the process was interrupted.
C8_FailingIdNeverAborts ==
  /\ [][(Exhausted /\ pc' # "killed") =>
          (pc' = "flush" /\ ~thrown' /\ progress'[id].status = "error")]_vars
  /\ [](pc = "done" => AllRecorded)
  /\ [](pc = "failed" => \E i \in fetched : progress[i] = OkEntry /\ i \notin RowsThisRun)
  /\ (pc = "start" ~> pc \in Ended)

\* C8, the part the code keeps: an error result is recorded as an error entry
\* and the loop goes on; a completed run covers the range; every run ends.
C8_ErrorResultDoesNotAbort ==
  /\ [][(pc = "record" /\ result.error # NoError /\ pc' # "killed") =>
          (pc' = "flush" /\ ~thrown' /\ progress'[id] = ErrorEntry(result.error))]_vars
  /\ [][(Exhausted /\ pc' # "killed") => (pc' = "flush" /\ ~thrown')]_vars
  /\ [](pc = "done" => AllRecorded)
  /\ [](pc = "failed" => \E i \in fetched : progress[i] = OkEntry /\ i \notin RowsThisRun)
  /\ (pc = "start" ~> pc \in Ended)

\* C9: bounded retry. A call of scrapeSeller makes at most MAX_RETRIES
\* network attempts and hands main() exactly one result (an error, or a
\* record with or without fields) after at least one attempt; nothing is
\* thrown while it runs.
C9_BoundedRetry ==
  /\ attempts <= MAX_RETRIES
  /\ (pc = "record" =>
        /\ attempts >= 1
        /\ result # NoResult
        /\ result.fields \subseteq TextFields
        /\ (result.error # NoError => result.fields = {}))
  /\ (pc \in {"attempt", "backoff", "record"} => ~thrown)

\* the budget was used up and the result is an error
C9_Witness ==
  /\ pc = "record"
  /\ attempts = MAX_RETRIES
  /\ result.error # NoError

LinearBackoff == [k \in 1..(MAX_RETRIES - 1) |-> BackoffBase * k]

C11_BackoffMonotonic ==
  /\ \A k \in 1..Len(sleeps) :
       /\ sleeps[k] = BackoffBase * k
       /\ (k > 1 => sleeps[k] >= sleeps[k - 1])
  /\ (pc = "record" /\ ~FailedAttempt(variant, resp)) =>
       /\ result.error = NoError
       /\ Len(sleeps) = attempts - 1
       /\ attempts <= MAX_RETRIES

\* one failed attempt, then a seller found on the second
C11_Witness ==
  /\ pc = "record"
  /\ attempts = 2
  /\ ~FailedAttempt(variant, resp)
  /\ result.fields # {}
  /\ sleeps = <<BackoffBase>>

C13_AuthoritativeNotFound ==
  [][(pc = "attempt" /\ pc' # "killed" /\ resp'.exc = NoError
        /\ resp'.status \in {404, 410}) =>
       /\ pc' = "record"
       /\ result' = emptyResult
       /\ resp'.body = "unread"
       /\ sleeps' = sleeps
       /\ dumps' = dumps]_vars

\* a 410 on the second attempt, after a first attempt that was retried
C13_Witness ==
  /\ pc = "record"
  /\ resp.status = 410
  /\ attempts = 2
  /\ result = emptyResult

\* C15: resource-level failures abort before any identifier is processed.
\* A progress.json that cannot be parsed always ends the run at start-up with
\* exit code 1, and a run that ended at start-up (unparseable ledger, sink
\* or directory not creatable) made no fetch attempt, wrote no ledger and
\* appended no row.
C15_StartupAbort ==
  /\ [][(pc = "start" /\ loadProgressThrows(progressFile)) =>
          pc' \in {"aborted", "killed"}]_vars
  /\ [][pc' = "aborted" =>
          (pc = "start" /\ progressFile' = progressFile /\ csvFile' = csvFile)]_vars
  /\ [](pc = "aborted" =>
          (fetched = {} /\ attempts = 0 /\ Len(csvFile) = csvAtStart
           /\ processedThisRun = 0))
  /\ [](loadProgressThrows(progressFile) => (fetched = {} /\ csvFile = <<>>))

\* a run ended at start-up on a ledger that cannot be parsed
C15_Witness ==
  /\ pc = "aborted"
  /\ loadProgressThrows(progressFile)

\* a loaded page with no seller field, no block signal, no not-found marker
\* and no not-found wording
UnrecognisedEmptyPage(r) ==
  /\ r.exc = NoError
  /\ r.body = "html"
  /\ r.status \notin {404, 410, 503}
  /\ ~r.marker
  /\ r.signal = "none"
  /\ r.fields = {}
  /\ ~r.wording

\* C19: unrecognised empty page (browser variant). Such a page is retried
\* while budget remains; when every attempt meets one, the result after the
\* last attempt is an error, so the id's ledger entry is an error entry.
C19_UnrecognisedEmptyPage ==
  /\ (variant = "browser" /\ pc \in {"backoff", "record"}
        /\ UnrecognisedEmptyPage(resp) /\ attempts < MAX_RETRIES) => pc = "backoff"
  /\ (variant = "browser" /\ upstream = "blank" /\ pc = "record") =>
       (attempts = MAX_RETRIES /\ result.error # NoError)
  /\ (variant = "browser" /\ upstream = "blank") =>
       \A i \in fetched : progress[i] # NoEntry => progress[i].status = "error"

\* a non-success HTTP status other than the not-found ones (and other than
\* 429, the rate-limit signal)
NonSuccessStatus(s) == s >= 400 /\ s \notin {404, 410, 429}

\* C20: generic non-success status. In both variants an attempt answered with
\* a non-success status other than 404/410 is retried (after the delay
\* 4000 * attempt) while budget remains, and on the last attempt gives an
\* error naming the status; it never gives a found or empty record.
C20_NonSuccessStatus ==
  /\ (pc \in {"backoff", "record"} /\ resp.exc = NoError
        /\ NonSuccessStatus(resp.status)) =>
       \/ pc = "backoff" /\ attempt < MAX_RETRIES
       \/ /\ pc = "record"
          /\ attempts = MAX_RETRIES
          /\ result \in {ErrorResult(ApiHttpMessage(resp.status)),
                         ErrorResult(BlockedMessage(resp.status))}
  /\ \A k \in 1..Len(sleeps) : sleeps[k] = BackoffBase * k

\* what the three stages found for a field, in the order of the cascade
StageValues(f) == <<stages.blockVals[f], stages.labelVals[f], stages.rxVals[f]>>

\* the first non-empty value of a sequence of values, empty when all are
FirstNonEmpty(vals) ==
  IF \A k \in 1..Len(vals) : vals[k] = <<>> THEN <<>>
  ELSE vals[CHOOSE k \in 1..Len(vals) :
              vals[k] # <<>> /\ \A j \in 1..(k - 1) : vals[j] = <<>>]

\* what parseSellerPage makes of the value taken for a field
Finish(f, v) ==
  CASE f = "businessName" -> FinishBusinessName(v)
    [] f = "vatNumber" -> FinishVatNumber(v)
    [] f = "registeredAddress" -> FinishRegisteredAddress(v)
    [] OTHER -> FinishShippedFrom(v, stages.shipsFromMatch)

\* C16: extraction cascade precedence. For each of the four fields the value
\* parseSellerPage takes (and then validates and cleans) is the first
\* non-empty one in the order label-block, structural-pair, pattern-fallback;
\* when the label-block and the structural-pair stage give different
\* non-empty values, the output is the label-block value's.
C16_CascadePrecedence ==
  pc = "parsed" =>
    \A f \in TextFields :
      /\ parsed[f] = Finish(f, FirstNonEmpty(StageValues(f)))
      /\ (/\ stages.blockVals[f] # <<>>
          /\ stages.labelVals[f] # <<>>
          /\ stages.blockVals[f] # stages.labelVals[f])
           => parsed[f] = Finish(f, stages.blockVals[f])

\* the two stages conflict and the outputs of their values differ
C16_Witness ==
  /\ pc = "parsed"
  /\ \E f \in TextFields :
       /\ stages.blockVals[f] # <<>>
       /\ stages.labelVals[f] # <<>>
       /\ Finish(f, stages.blockVals[f]) # Finish(f, stages.labelVals[f])
       /\ Finish(f, stages.labelVals[f]) # <<>>
       /\ parsed[f] = stages.blockVals[f]

\* the shape of an accepted VAT number: an optional prefix of two letters
\* (and white space after it), then 8 to 20 letters, digits, spaces or
\* hyphens, with at least 8 digits in a row somewhere
VatShaped(v) ==
  /\ \E p \in {0, 2} :
       /\ p <= Len(v)
       /\ \A j \in 1..p : IsLetter(v[j])
       /\ \E w \in 0..(Len(v) - p) :
            /\ (p = 0 => w = 0)
            /\ \A j \in (p + 1)..(p + w) : IsWhitespace(v[j])
            /\ Len(v) - p - w >= 8
            /\ Len(v) - p - w <= 20
            /\ \A j \in (p + w + 1)..Len(v) :
                 IsLetter(v[j]) \/ IsDigit(v[j]) \/ v[j] = " " \/ v[j] = "-"
  /\ \E i \in 1..Len(v) :
       i + 7 <= Len(v) /\ \A j \in i..(i + 7) : IsDigit(v[j])

FoldCase(c) ==
  IF IsUpper(c) THEN LowerCase[CHOOSE k \in 1..Len(UpperCase) : c = UpperCase[k]]
  ELSE c

\* phrase p stands in s at position i (from 1), case-insensitively
PhraseAt(s, p, i) ==
  /\ i + Len(p) - 1 <= Len(s)
  /\ \A j \in 1..Len(p) : FoldCase(s[i + j - 1]) = p[j]

\* the positions of s at which one of the trailing section phrases starts
PhraseStarts(s) ==
  {i \in 1..Len(s) : \E k \in 1..Len(cutPhrases) : PhraseAt(s, cutPhrases[k], i)}

\* C18: address truncation. The registeredAddress returned never contains one
\* of the trailing section phrases, in any case of letters; an address with
\* such a phrase in it is cut where the (first) phrase starts, and the
\* commas and white space before the cut are dropped.
C18_AddressTruncation ==
  pc = "parsed" =>
    LET address == JoinLines(cleanText(FirstNonEmpty(StageValues("registeredAddress"))))
        out == parsed.registeredAddress
        starts == PhraseStarts(address)
    IN /\ PhraseStarts(out) = {}
       /\ starts # {} =>
            LET first == CHOOSE i \in starts : \A j \in starts : i <= j
                before == SubSeq(address, 1, first - 1)
            IN /\ Len(out) <= Len(before)
               /\ out = SubSeq(before, 1, Len(out))
               /\ \A k \in (Len(out) + 1)..Len(before) :
                    before[k] = "," \/ IsWhitespace(before[k])
               /\ (out # <<>> =>
                     out[Len(out)] # "," /\ ~IsWhitespace(out[Len(out)]))

\* C21: rate-limit handling. An attempt answered with the rate-limit status
\* (429) is followed by a backoff and a retry while the budget lasts, and by
\* an error outcome when it is spent; the backoff lasts as long as the
\* server suggests when the response carries a suggested wait.
C21_RateLimitBackoff ==
  /\ [][(/\ pc = "attempt"
         /\ pc' # "killed"
         /\ resp'.exc = NoError
         /\ resp'.status = 429)
          => IF attempt < MAX_RETRIES
               THEN pc' = "backoff"
               ELSE pc' = "record" /\ result'.error # NoError]_vars
  /\ [][(/\ pc = "backoff"
         /\ pc' # "killed"
         /\ resp.status = 429
         /\ resp.retryAfter > 0)
          => sleeps' = Append(sleeps, resp.retryAfter)]_vars

\* C22: per-attempt timeout. A network operation that was started settles
\* (scrapeSeller goes on to a backoff or returns), whatever the site does,
\* and every run that was started ends; in the API variant as in the
\* browser variant.
C22_AttemptTimeout ==
  /\ (pc = "attempt" ~> pc # "attempt")
  /\ (pc = "start" ~> pc \in Ended)

\* the number of rows the sink holds for an id
RowCount(csv, i) == Cardinality({k \in 1..Len(csv) : csv[k] = i})

\* C23: duplicate row on crash. A run that finds no persisted entry for an
\* id of its range fetches the id, whether or not the sink already holds a
\* row for it, and the row of a found seller is appended without looking at
\* the sink: an id whose row was appended by a run that died before the
\* flush of its entry gets a second row when it is found again.
C23_DuplicateRowOnCrash ==
  /\ [](\A i \in AllIds :
          (/\ pc \in Running \ {"start"}
           /\ InRange(i)
           /\ i < id
           /\ loaded[i] = NoEntry
           /\ RowCount(SubSeq(csvFile, 1, csvAtStart), i) > 0)
            => i \in fetched)
  /\ [][(pc = "append" /\ pc' = "flush") =>
          RowCount(csvFile', id) = RowCount(csvFile, id) + 1]_vars

\* the run after a crash between the append and the flush has found the
\* seller again: the sink holds two rows for the id
C23_Witness ==
  /\ run > 1
  /\ pc = "flush"
  /\ loaded[id] = NoEntry
  /\ RowCount(SubSeq(csvFile, 1, csvAtStart), id) = 1
  /\ RowCount(csvFile, id) = 2

\* ids scrapeSeller was invoked for whose result main() has not recorded yet
Unsettled == {j \in fetched : progress[j] = NoEntry}

\* C24: serial ordering. In a run the fetches are dispatched in strictly
\* increasing id order and at most one id is being fetched at any time; a
\* ledger entry is written only for the id whose fetch has just returned, a
\* row only for the id just recorded as found, and both before the fetch of
\* a higher id is dispatched.
C24_SerialOrdering ==
  /\ [](pc \in Running => Cardinality(Unsettled) <= 1)
  /\ [](pc \in {"attempt", "backoff", "record"} => Unsettled = {id})
  /\ [](\A k \in (csvAtStart + 1)..(Len(csvFile) - 1) : csvFile[k] < csvFile[k + 1])
  /\ [][(pc = "loop" /\ pc' = "attempt") =>
          /\ fetched' = fetched \cup {id}
          /\ \A j \in fetched : j < id /\ progress[j] # NoEntry
          /\ \A k \in (csvAtStart + 1)..Len(csvFile) : csvFile[k] < id]_vars
  /\ [][(pc \in Running \ {"start"} /\ progress' # progress) =>
          /\ pc = "record"
          /\ result # NoResult
          /\ Unsettled = {id}
          /\ \A j \in AllIds \ {id} : progress'[j] = progress[j]]_vars
  /\ [][(csvFile' # csvFile) =>
          /\ pc = "append"
          /\ progress[id] = OkEntry
          /\ Unsettled = {}
          /\ csvFile' = Append(csvFile, id)]_vars

\* the fetch of a second id is dispatched after the first was recorded as found
C24_Witness ==
  /\ pc = "attempt"
  /\ Cardinality(fetched) >= 2
  /\ \E j \in fetched : j < id /\ progress[j] = OkEntry /\ j \in RowsThisRun

\* a rendered page the browser variant classifies Blocked
BlockedPage(r) ==
  /\ r.exc = NoError
  /\ r.status \notin {404, 410}
  /\ ~r.marker
  /\ (r.status = 503 \/ r.signal # "none")

\* a rendered page, not Blocked, from which no field is extracted
EmptyExtraction(r) ==
  /\ r.exc = NoError
  /\ r.status \notin {404, 410}
  /\ ~r.marker
  /\ r.status # 503
  /\ r.signal = "none"
  /\ r.fields = {}

\* C25: the diagnostic dump does not affect the outcome (browser variant).
\* After an attempt on a page classified Blocked, or from which nothing is
\* extracted, the diagnostic store holds what it held, with or without the
\* dump of that page under the id; in both cases no exception is raised by
\* the attempt, the decision to retry or to return and the result returned
\* are those the page and the attempt number alone determine, and the run
\* is not aborted.  Pages of any other kind are not dumped.
C25_DumpDoesNotAffectOutcome ==
  [][(pc = "attempt" /\ variant = "browser" /\ pc' # "killed") =>
       /\ excs' = excs \o (IF resp'.exc # NoError THEN <<resp'.exc>> ELSE <<>>)
       /\ ~thrown'
       /\ BlockedPage(resp') =>
            /\ dumps' \in {dumps, dumps \cup {<<"blocked", id>>}}
            /\ IF attempt < MAX_RETRIES
                 THEN pc' = "backoff"
                 ELSE /\ pc' = "record"
                      /\ result' = ErrorResult(BlockedMessage(resp'.status))
       /\ EmptyExtraction(resp') =>
            /\ dumps' \in {dumps, dumps \cup {<<"empty", id>>}}
            /\ IF resp'.wording
                 THEN pc' = "record" /\ result' = emptyResult
                 ELSE IF attempt < MAX_RETRIES
                   THEN pc' = "backoff"
                   ELSE pc' = "record" /\ result' = emptyResult
       /\ (~BlockedPage(resp') /\ ~EmptyExtraction(resp')) => dumps' = dumps]_vars

\* every attempt met a challenge page and no dump could be written: the
\* outcome is the Blocked error all the same
C25_Witness ==
  /\ variant = "browser"
  /\ pc = "record"
  /\ attempts = MAX_RETRIES
  /\ BlockedPage(resp)
  /\ dumps = {}
  /\ result = ErrorResult(BlockedMessage(resp.status))

\* C26: classification priority in the browser fetch client. On an attempt
\* that got a response the checks apply in the order not-found status,
\* not-found marker, block detector, field extraction, not-found wording:
\* a 404 or 410 is Empty with the document unread; a page with the not-found
\* marker is Empty at once, without sleep or dump, whatever block signal or
\* status it carries; a page with a block signal or status 503 and no marker
\* is retried or ends as an error, never as Found, whatever fields it holds;
\* a page with fields is Found even if it carries not-found wording; a page
\* without fields and with the wording is Empty.
C26_ClassificationPriority ==
  [][(/\ pc = "attempt"
      /\ variant = "browser"
      /\ pc' # "killed"
      /\ resp'.exc = NoError)
       => /\ resp'.status \in {404, 410} =>
               pc' = "record" /\ result' = emptyResult /\ resp'.body = "unread"
          /\ (resp'.status \notin {404, 410} /\ resp'.marker) =>
               /\ pc' = "record"
               /\ result' = emptyResult
               /\ sleeps' = sleeps
               /\ dumps' = dumps
          /\ BlockedPage(resp') =>
               \/ pc' = "backoff"
               \/ pc' = "record" /\ result'.error # NoError /\ result'.fields = {}
          /\ (/\ resp'.status \notin {404, 410, 503}
              /\ ~resp'.marker
              /\ resp'.signal = "none"
              /\ resp'.fields # {}) =>
               /\ pc' = "record"
               /\ result' = [error |-> NoError, fields |-> resp'.fields]
          /\ (EmptyExtraction(resp') /\ resp'.wording) =>
               pc' = "record" /\ result' = emptyResult]_vars

\* a page with the not-found marker and a block signal or status 503 has
\* been returned as Empty by the first attempt
C26_Witness ==
  /\ variant = "browser"
  /\ pc = "record"
  /\ attempts = 1
  /\ resp.marker
  /\ (resp.signal # "none" \/ resp.status = 503)
  /\ result = emptyResult

\* C27: ledger monotonicity. Once a run has loaded the ledger, an entry of
\* the in-memory ledger is never removed or changed; an entry is written
\* only for the id being processed, which had none and was not fetched
\* before in the run; a flush writes the whole in-memory mapping, and an
\* entry of progress.json is never removed or changed by any later write.
C27_LedgerMonotonic ==
  /\ [][(pc \in Running \ {"start"}) =>
          /\ \A i \in AllIds : progress[i] # NoEntry => progress'[i] = progress[i]
          /\ progress' # progress =>
               /\ progress[id] = NoEntry
               /\ progress'[id] # NoEntry
               /\ \A j \in AllIds \ {id} : progress'[j] = progress[j]]_vars
  /\ [][(pc = "loop" /\ pc' = "attempt") =>
          id \notin fetched /\ progress[id] = NoEntry]_vars
  /\ [][(progressFile' # progressFile) =>
          /\ progressFile' = progress
          /\ \A i \in AllIds :
               progressFile[i] # NoEntry => progressFile'[i] = progressFile[i]]_vars

\* a resumed run has flushed a ledger that holds the entries it loaded and
\* an entry it added
C27_Witness ==
  /\ run > 1
  /\ pc \in {"pace", "done"}
  /\ progressFile = progress
  /\ \E i \in AllIds : loaded[i] # NoEntry /\ progressFile[i] = loaded[i]
  /\ \E j \in AllIds : loaded[j] = NoEntry /\ progressFile[j] # NoEntry

====
